---- MODULE Spec2Model ----
(***************************************************************************)
(* A model of GSA_tools: the per-genome acquisition pipeline of            *)
(* src/GSA_tools.py (RunInfo truncation and filtering, threaded BioSample  *)
(* metadata scraping over one shared browser, threaded wget downloads,     *)
(* read-manifest classification) and of the standalone manifest writer     *)
(* src/additional_scripts/read_manifest_writer.py.                         *)
(*                                                                         *)
(* Strings the code inspects character by character (file names, CSV       *)
(* lines, genome and ScientificName cells) are sequences of one-character  *)
(* strings; strings the code only compares or sorts are TLA+ strings.      *)
(***************************************************************************)
EXTENDS Integers, Sequences, FiniteSets, TLC

(***************************************************************************)
(* Bounds of the model.                                                    *)
(***************************************************************************)
\* longest input list of genomes (lines of --input)
MaxGenomes == 2
\* largest --threads value tried
MaxThreads == 2
\* most data rows of a RunInfo table handed to the metadata / download phases
MaxRows == 2
\* longest CSV line, in characters, handed to truncate_runinfo
MaxLineLen == 4
\* most lines of a CSV file handed to truncate_runinfo
MaxLines == 2
\* largest ncols argument tried for truncate_runinfo
MaxCols == 2
\* most files of one BioSample directory handed to the manifest writers
MaxFiles == 3

(***************************************************************************)
(* Program constants.                                                      *)
(***************************************************************************)
\* process_genome: truncate_runinfo(final_csv, ncols=22); the filter reads cols[21]
NCols == 22

(***************************************************************************)
(* Generic helpers.                                                        *)
(***************************************************************************)
\* Python's None where the model keeps it beside strings
None == "None"

\* A record that is None.  The code only tests records for truth (`if rec:`,
\* `if res:`), which None and the empty dict fail alike.
NoRecord == <<>>

\* no value returned yet, no file written yet
NoResult == <<>>

NoManifest == <<>>

NoTable == [header |-> <<>>, rows |-> <<>>]

Range(f) == {f[i] : i \in DOMAIN f}

Min(a, b) == IF a <= b THEN a ELSE b

\* every sequence over S of length lo..hi
SeqsBetween(S, lo, hi) == UNION {[1..n -> S] : n \in lo..hi}

RECURSIVE Concat(_)
\* the concatenation of a sequence of sequences
Concat(ss) == IF ss = <<>> THEN <<>> ELSE Head(ss) \o Concat(Tail(ss))

\* Code points of the characters the model uses, for Python's str comparison.
Code(c) ==
    CASE c = " " -> 32 [] c = "," -> 44 [] c = "-" -> 45 [] c = "." -> 46
      [] c = "1" -> 49 [] c = "2" -> 50
      [] c = "E" -> 69 [] c = "F" -> 70 [] c = "K" -> 75 [] c = "Q" -> 81 [] c = "R" -> 82
      [] c = "_" -> 95
      [] c = "a" -> 97 [] c = "b" -> 98 [] c = "c" -> 99 [] c = "e" -> 101
      [] c = "f" -> 102 [] c = "g" -> 103 [] c = "k" -> 107 [] c = "p" -> 112
      [] c = "q" -> 113 [] c = "r" -> 114 [] c = "s" -> 115 [] c = "t" -> 116
      [] c = "x" -> 120 [] c = "z" -> 122

\* str.lower() on one character
LowerChar(c) ==
    CASE c = "E" -> "e" [] c = "F" -> "f" [] c = "K" -> "k" [] c = "Q" -> "q"
      [] c = "R" -> "r" [] OTHER -> c

\* str.lower()
Lower(s) == [i \in DOMAIN s |-> LowerChar(s[i])]

\* Python's `a in b` on strings
IsSubstring(a, b) ==
    \E i \in 0..(Len(b) - Len(a)) : SubSeq(b, i + 1, i + Len(a)) = a

\* s.endswith(t)
EndsWith(s, t) == Len(s) >= Len(t) /\ SubSeq(s, Len(s) - Len(t) + 1, Len(s)) = t

RECURSIVE StrLess(_, _)
\* Python's a < b on strings: lexicographic by code point
StrLess(a, b) ==
    IF a = <<>> THEN b # <<>>
    ELSE IF b = <<>> THEN FALSE
    ELSE IF Head(a) = Head(b) THEN StrLess(Tail(a), Tail(b))
    ELSE Code(Head(a)) < Code(Head(b))

RECURSIVE SortedPaths(_)
\* sorted(...) of a set of character-sequence names
SortedPaths(S) ==
    IF S = {} THEN <<>>
    ELSE LET m == CHOOSE x \in S : \A y \in S \ {x} : StrLess(x, y)
         IN  <<m>> \o SortedPaths(S \ {m})

\* Every string the code sorts as a whole (sample ids, attribute keys), in
\* ascending code-point order.
StrOrder ==
    <<"Accession", "Attributes", "BioSample", "Host", "Release_date",
      "SAMC1", "SAMC2", "SAMC3", "Strain">>

\* sorted(S) for a set S of such strings
Sorted(S) == SelectSeq(StrOrder, LAMBDA x : x \in S)

\* whether a sequence of such strings is in ascending order
IsAscending(q) ==
    \A i, j \in DOMAIN q : i < j =>
        \E a, b \in DOMAIN StrOrder : a < b /\ StrOrder[a] = q[i] /\ StrOrder[b] = q[j]

(***************************************************************************)
(* Python dicts: insertion-ordered, as sequences of <<key, value>> pairs   *)
(* with distinct keys.                                                     *)
(***************************************************************************)
DictKeys(d) == {d[i][1] : i \in DOMAIN d}

\* d.get(k, "")
DictGet(d, k) ==
    IF k \in DictKeys(d) THEN (d[CHOOSE i \in DOMAIN d : d[i][1] = k])[2] ELSE ""

\* d[k] = v: an existing key keeps its position, a new key goes last
DictSet(d, k, v) ==
    IF k \in DictKeys(d)
    THEN [i \in DOMAIN d |-> IF d[i][1] = k THEN <<k, v>> ELSE d[i]]
    ELSE Append(d, <<k, v>>)

(***************************************************************************)
(* truncate_runinfo, character by character.  A file is the sequence of    *)
(* its lines, a line the sequence of its characters without the newline.   *)
(***************************************************************************)
\* characters str.strip() removes (the newline that ends each line read
\* from the file is removed by the same call)
IsSpace(c) == c = " "

RECURSIVE LStrip(_)
LStrip(s) == IF s # <<>> /\ IsSpace(Head(s)) THEN LStrip(Tail(s)) ELSE s

RECURSIVE RStrip(_)
RStrip(s) ==
    IF s # <<>> /\ IsSpace(s[Len(s)]) THEN RStrip(SubSeq(s, 1, Len(s) - 1)) ELSE s

\* line.strip()
Strip(s) == RStrip(LStrip(s))

RECURSIVE SplitComma(_)
\* s.split(","): always at least one field
SplitComma(s) ==
    IF \A i \in DOMAIN s : s[i] # ","
    THEN <<s>>
    ELSE LET p == CHOOSE i \in DOMAIN s : s[i] = "," /\ \A j \in 1..(i - 1) : s[j] # ","
         IN  <<SubSeq(s, 1, p - 1)>> \o SplitComma(SubSeq(s, p + 1, Len(s)))

RECURSIVE JoinComma(_)
\* ",".join(parts)
JoinComma(parts) ==
    IF parts = <<>> THEN <<>>
    ELSE IF Len(parts) = 1 THEN parts[1]
    ELSE parts[1] \o <<",">> \o JoinComma(Tail(parts))

\* parts[:n]
Take(q, n) == SubSeq(q, 1, Min(n, Len(q)))

\* one iteration of the loop: the line written for the line read
TruncateLine(line, ncols) == JoinComma(Take(SplitComma(Strip(line)), ncols))

\* the file content truncate_runinfo leaves for the content it finds
truncate_runinfo(lines, ncols) == [i \in DOMAIN lines |-> TruncateLine(lines[i], ncols)]

\* the number of comma-delimited fields of a line
FieldCount(line) == Len(SplitComma(line))

(***************************************************************************)
(* Read classification: the two regular expressions, the glob and the      *)
(* bucketing loop shared by write_read_manifest and the standalone tool.   *)
(***************************************************************************)
\* [_\.-]
Sep == {"_", ".", "-"}

\* \.(?:f(ast)?q)\.gz$ under re.IGNORECASE
IsFastqExt(t) ==
    Lower(t) \in {<<".", "f", "q", ".", "g", "z">>,
                  <<".", "f", "a", "s", "t", "q", ".", "g", "z">>}

\* the lookahead (?=[_\.-]?\.(?:f(ast)?q)\.gz$)
MateLookahead(t) == IsFastqExt(t) \/ (t # <<>> /\ t[1] \in Sep /\ IsFastqExt(Tail(t)))

\* (?:^|[_\.-]) ending just before position i
MateBoundary(name, i) == i = 1 \/ name[i - 1] \in Sep

\* re.search of (?:^|[_\.-])(?:[RrFf]?<digit>)(?=...) in name
MateSearch(name, digit) ==
    \E i \in DOMAIN name :
        /\ name[i] = digit
        /\ MateLookahead(SubSeq(name, i + 1, Len(name)))
        /\ \/ MateBoundary(name, i)
           \/ i > 1 /\ LowerChar(name[i - 1]) \in {"r", "f"} /\ MateBoundary(name, i - 1)

R1_RE(name) == MateSearch(name, "1")

R2_RE(name) == MateSearch(name, "2")

\* biosample.glob("*.f*q.gz"), case-sensitive
GlobFastq(name) ==
    /\ EndsWith(name, <<"q", ".", "g", "z">>)
    /\ \E i \in 1..(Len(name) - 5) : name[i] = "." /\ name[i + 1] = "f"

RECURSIVE BucketFiles(_, _)
\* the loop `for f in files`: appends each name to short1, short2 or long
BucketFiles(files, acc) ==
    IF files = <<>> THEN acc
    ELSE LET f == Head(files)
         IN  BucketFiles(Tail(files),
                IF R1_RE(f) THEN [acc EXCEPT !.short1 = Append(@, f)]
                ELSE IF R2_RE(f) THEN [acc EXCEPT !.short2 = Append(@, f)]
                ELSE [acc EXCEPT !.long = Append(@, f)])

EmptyBuckets == [short1 |-> <<>>, short2 |-> <<>>, long |-> <<>>]

\* a has_short that takes one mate for a pair
HasShortEither(b) == b.short1 # <<>> \/ b.short2 # <<>>

\* has_short = bool(short1 and short2)
HasShort(b) == b.short1 # <<>> /\ b.short2 # <<>>

\* has_long = bool(long_reads)
HasLong(b) == b.long # <<>>

\* the if / elif chain that sets status
StatusOf(b) ==
    IF HasShort(b) /\ HasLong(b) THEN "hybrid"
    ELSE IF HasShort(b) THEN "short_only"
    ELSE IF HasLong(b) THEN "long_only"
    ELSE "unknown"

\* str(sorted(xs)[0]) if xs else ""
FirstSorted(xs) == IF xs # <<>> THEN SortedPaths(Range(xs))[1] ELSE <<>>

\* the manifest line written for one BioSample directory, whose glob
\* returned `files` (a sequence, in the order the file system listed them)
ManifestRow(biosample, files) ==
    LET b == BucketFiles(files, EmptyBuckets)
    IN  [biosample_path |-> biosample,
         fastq_count |-> Len(files),
         status |-> StatusOf(b),
         short_read_1 |-> FirstSorted(b.short1),
         short_read_2 |-> FirstSorted(b.short2),
         long_read_primary |-> FirstSorted(b.long),
         long_read_extra |-> IF Len(b.long) > 1 THEN Tail(SortedPaths(Range(b.long))) ELSE <<>>]

\* the orders in which a glob may return the names of a set
ListingsOf(S) == {q \in [1..Cardinality(S) -> S] : Range(q) = S}

(***************************************************************************)
(* The data the runs are given.                                            *)
(***************************************************************************)
\* genome names of the input list: "Ec" and "K p"
GenomeEc == <<"E", "c">>

GenomeKp == <<"K", " ", "p">>

GenomeNames == {GenomeEc, GenomeKp}

\* ScientificName cells: "ecx", "K pa"
NameEcx == <<"e", "c", "x">>

NameKpa == <<"K", " ", "p", "a">>

\* file names: a_1.fq.gz, a_2.fq.gz, b.fq.gz, R1.fq.gz, c1.fq.gz, x_r2.fq.gz,
\* a_1_.FQ.gz (outside the glob, inside the regex), a_1.txt
FileA1 == <<"a", "_", "1", ".", "f", "q", ".", "g", "z">>

FileA2 == <<"a", "_", "2", ".", "f", "q", ".", "g", "z">>

FileB == <<"b", ".", "f", "q", ".", "g", "z">>

FileR1 == <<"R", "1", ".", "f", "q", ".", "g", "z">>

FileC1 == <<"c", "1", ".", "f", "q", ".", "g", "z">>

FileXr2 == <<"x", "_", "r", "2", ".", "f", "q", ".", "g", "z">>

FileUpper == <<"a", "_", "1", "_", ".", "F", "Q", ".", "g", "z">>

FileTxt == <<"a", "_", "1", ".", "t", "x", "t">>

FileNames == {FileA1, FileA2, FileB, FileR1, FileC1, FileXr2, FileUpper, FileTxt}

\* A URL is its scheme prefix, its directory part and its basename.
Url(scheme, dir, base) == [scheme |-> scheme, dir |-> dir, base |-> base]

UrlA1 == Url("http://", "x", FileA1)

UrlA2 == Url("http://", "x", FileA2)

UrlB == Url("ftp://", "x", FileB)

\* another URL with the basename of UrlA1
UrlA1Mirror == Url("http://", "y", FileA1)

\* a scheme outside the two the code accepts
UrlHttps == Url("https://", "x", FileB)

SampleIds == {"SAMC1", "SAMC2"}

\* One data row of RunInfo.csv: the three cells read by header name, the cell
\* at index 21 and the number of comma-delimited fields of the line.
Row(run, biosample, paths, cell22, n) ==
    [Run |-> run, BioSample |-> biosample, Download_path |-> paths,
     col22 |-> cell22, nfields |-> n]

\* the tables the discovery step may download
TableTwoSamples ==
    <<Row("CRR1", "SAMC1", <<UrlA1, UrlA2>>, NameEcx, NCols + 1),
      Row("CRR2", "SAMC2", <<UrlB>>, GenomeEc, NCols)>>

TableNoMatch ==
    <<Row("CRR3", "SAMC1", <<UrlA1>>, NameKpa, NCols - 1),
      Row("CRR4", "SAMC1", <<UrlA1>>, <<"x">>, NCols)>>

DiscoveredTables == {TableTwoSamples, TableNoMatch}

\* A BioSample page: whether #attribute_table appears, its <th>/<td> rows and
\* the rows of the other table2 tables.  Keys are the <th> texts.
Page(found, attrs, extra) == [found |-> found, attrs |-> attrs, extra |-> extra]

PageMissing == Page(FALSE, <<>>, <<>>)

PageHost == Page(TRUE, <<<<"Host", "human">>>>, <<<<"Accession", "SAMC9">>, <<"Release date", "2020">>>>)

PageStrain == Page(TRUE, <<<<"Strain", "K12">>, <<"Attributes", "nested">>>>, <<>>)

PageOddKeys == Page(TRUE, <<<<"BioSample", "SAMC3">>, <<"Host", "">>>>, <<<<"Strain", "B">>>>)

Pages == {PageMissing, PageHost, PageStrain, PageOddKeys}

\* the web as the pipeline runs see it
DefaultWeb == [s \in SampleIds |-> IF s = "SAMC1" THEN PageHost ELSE PageStrain]

\* file states: absent, or present and empty, part-written or complete
FileStates == {"absent", "empty", "partial", "full"}

\* genome_fs = genome.replace(" ", "_")
genome_fs(genome) == [i \in DOMAIN genome |-> IF genome[i] = " " THEN "_" ELSE genome[i]]

SpeciesDirs == {genome_fs(g) : g \in GenomeNames}

\* every path species_dir / BioSample / basename the model can name
Paths == SpeciesDirs \X SampleIds \X FileNames

(***************************************************************************)
(* State.                                                                  *)
(***************************************************************************)
VARIABLES
    \* main: the input list, the flags, the loop position, where control is,
    \* whether an exception is propagating, the last value process_genome
    \* returned, the genomes process_genome was called for, the discovery
    \* browser and how often it was quit, and (history) the phases entered
    \* in the present call of process_genome
    genomes, dry_run, threads, gi, pc, exc, result, called, driver, quits, ran,
    \* process_genome: the RunInfo table on disk, what has been done to it, n_rows
    runinfo, stage, n_rows,
    \* write_biosample_metadata_parallel: the pages of the site, the page the
    \* shared metadata browser shows, the sorted ids, the futures, the futures
    \* as_completed has yielded, records, the TSV written
    web, mpage, biosamples, fut, collected, records, meta_tsv,
    \* download_from_runinfo: tasks, each task's progress, the value starmap
    \* returns, wget's exit status per task, the file system (files and
    \* BioSample directories), wget invocations of this run, the run number,
    \* and (history) the file system as it was when this run began
    tasks, dl, dl_results, exit_status, fs, dirs, wget_calls, run, fs_at_start,
    \* the manifests written by write_read_manifest and by the standalone tool
    manifest, manifest_standalone,
    \* truncate_runinfo on a character-level file: the file first given, the
    \* file now, the ncols argument, the passes made
    csv0, csv, ncols_arg, passes

\* main's variables other than gi, pc and result
mainFixed == <<genomes, dry_run, threads, exc, called, driver, quits, ran>>

\* main's variables that process_genome never assigns
mainArgs == <<genomes, dry_run, threads, exc, called, driver, quits>>

mainVars == <<mainFixed, gi, pc, result>>

tableVars == <<runinfo, stage, n_rows>>

metaVars == <<web, mpage, biosamples, fut, collected, records, meta_tsv>>

dlVars == <<tasks, dl, dl_results, exit_status, fs, dirs, wget_calls, run, fs_at_start>>

manifestVars == <<manifest, manifest_standalone>>

truncVars == <<csv0, csv, ncols_arg, passes>>

vars == <<mainVars, tableVars, metaVars, dlVars, manifestVars, truncVars>>

(***************************************************************************)
(* main and process_genome.                                                *)
(***************************************************************************)
\* the genome process_genome is working on
Genome == genomes[gi]

\* species_dir
SpeciesDir == genome_fs(Genome)

\* `return ...` in process_genome: main stores the value and loops
Return(value) ==
    /\ result' = value
    /\ gi' = gi + 1
    /\ pc' = "for"

\* `for g in genomes:` with a genome left: process_genome is entered
ProcessGenome ==
    /\ pc = "for"
    /\ gi <= Len(genomes)
    /\ called' = called \cup {gi}
    /\ pc' = "discover"
    /\ runinfo' = <<>>
    /\ stage' = "none"
    /\ n_rows' = 0
    /\ meta_tsv' = NoTable
    /\ manifest' = NoManifest
    /\ ran' = {}
    /\ UNCHANGED <<genomes, dry_run, threads, gi, exc, result, driver, quits>>
    /\ UNCHANGED <<web, mpage, biosamples, fut, collected, records>>
    /\ UNCHANGED <<dlVars, manifest_standalone, truncVars>>

\* the search found nothing usable: "No items found", no downloadContainer,
\* a result count of 0, or no RunInfo file within the timeout
DiscoverNothing ==
    /\ pc = "discover"
    /\ Return(<<Genome, 0, FALSE>>)
    /\ UNCHANGED <<mainFixed, tableVars, metaVars, dlVars, manifestVars, truncVars>>

\* the RunInfo file arrived and was moved to <genome_fs>_RunInfo.csv
DiscoverTable(t) ==
    /\ pc = "discover"
    /\ runinfo' = t
    /\ stage' = "downloaded"
    /\ pc' = "truncate"
    /\ UNCHANGED <<mainFixed, gi, result, n_rows, metaVars, dlVars, manifestVars, truncVars>>

\* where the calls process_genome makes can raise: the Selenium calls of the
\* search (driver.get, the clicks of click_send_to_runinfo), webdriver.Chrome
\* and pandas.read_csv in the metadata phase, pandas.read_csv in the download
RaisePoints == {"discover", "meta_start", "download_start"}

\* a main without the finally clause: the exception leaves main at once
RaiseSkipsFinally ==
    /\ pc \in RaisePoints
    /\ exc' = TRUE
    /\ pc' = "exit"
    /\ UNCHANGED <<genomes, dry_run, threads, called, driver, quits, ran, gi, result>>
    /\ UNCHANGED <<tableVars, metaVars, dlVars, manifestVars, truncVars>>

\* an exception leaves process_genome; main has no except clause, so it
\* leaves the for loop too and control reaches the finally block
Raise ==
    /\ pc \in RaisePoints
    /\ exc' = TRUE
    /\ pc' = "finally"
    /\ UNCHANGED <<genomes, dry_run, threads, called, driver, quits, ran, gi, result>>
    /\ UNCHANGED <<tableVars, metaVars, dlVars, manifestVars, truncVars>>

\* truncate_runinfo(final_csv, ncols=22) on the table: every line keeps its
\* first 22 fields
TruncateTable ==
    /\ pc = "truncate"
    /\ runinfo' = [i \in DOMAIN runinfo |-> [runinfo[i] EXCEPT !.nfields = Min(@, NCols)]]
    /\ stage' = "truncated"
    /\ pc' = "filter"
    /\ UNCHANGED <<mainFixed, gi, result, n_rows, metaVars, dlVars, manifestVars, truncVars>>

\* the test of filter_runinfo_by_scientific_name on one data line
KeepsRow(row, genome) ==
    /\ ~(row.nfields < NCols)
    /\ IsSubstring(Lower(genome), Lower(row.col22))

\* filter_runinfo_by_scientific_name(final_csv, genome)
FilterTable ==
    /\ pc = "filter"
    /\ runinfo' = SelectSeq(runinfo, LAMBDA row : KeepsRow(row, Genome))
    /\ stage' = "filtered"
    /\ pc' = "count"
    /\ UNCHANGED <<mainFixed, gi, result, n_rows, metaVars, dlVars, manifestVars, truncVars>>

\* n_rows = lines - 1, and the test `if n_rows <= 0`
CountRows ==
    /\ pc = "count"
    /\ n_rows' = Len(runinfo)
    /\ IF n_rows' <= 0
       THEN Return(<<Genome, 0, FALSE>>)
       ELSE pc' = "meta_start" /\ UNCHANGED <<gi, result>>
    /\ UNCHANGED <<mainFixed, runinfo, stage, metaVars, dlVars, manifestVars, truncVars>>

\* a process_genome that downloads whatever the dry-run flag says
DryRunIgnored ==
    /\ pc = "dry_run"
    /\ pc' = "download_start"
    /\ UNCHANGED <<gi, result>>
    /\ UNCHANGED <<mainFixed, tableVars, metaVars, dlVars, manifestVars, truncVars>>

\* `if dry_run:` after the metadata phase
DryRunTest ==
    /\ pc = "dry_run"
    /\ IF dry_run
       THEN Return(<<Genome, n_rows, TRUE>>)
       ELSE pc' = "download_start" /\ UNCHANGED <<gi, result>>
    /\ UNCHANGED <<mainFixed, tableVars, metaVars, dlVars, manifestVars, truncVars>>

\* the for loop is exhausted
ForEnd ==
    /\ pc = "for"
    /\ gi > Len(genomes)
    /\ pc' = "finally"
    /\ UNCHANGED <<mainFixed, gi, result, tableVars, metaVars, dlVars, manifestVars, truncVars>>

\* finally: driver.quit(); then main returns, or the exception goes on up
Finally ==
    /\ pc = "finally"
    /\ driver' = "quit"
    /\ quits' = quits + 1
    /\ pc' = "exit"
    /\ UNCHANGED <<genomes, dry_run, threads, exc, called, ran, gi, result>>
    /\ UNCHANGED <<tableVars, metaVars, dlVars, manifestVars, truncVars>>

(***************************************************************************)
(* write_biosample_metadata_parallel and scrape_biosample_metadata (the    *)
(* second definition, which replaces the first when the module loads).     *)
(***************************************************************************)
\* get_biosamples_from_runinfo: sorted(set(df["BioSample"])) without ""
get_biosamples(table) == Sorted({table[i].BioSample : i \in DOMAIN table} \ {""})

\* key = re.sub(r"\s+", "_", text.strip())
NormKey(th) == IF th = "Release date" THEN "Release_date" ELSE th

RECURSIVE ReadAttributeRows(_, _)
RECURSIVE ReadExtraRows(_, _)

\* the loop over the rows of #attribute_table: record[key] = val
ReadAttributeRows(record, rows) ==
    IF rows = <<>> THEN record
    ELSE ReadAttributeRows(DictSet(record, NormKey(rows[1][1]), rows[1][2]), Tail(rows))

\* the loop over the rows of the other tables: if key != "Accession": record[key] = val
ReadExtraRows(record, rows) ==
    IF rows = <<>> THEN record
    ELSE ReadExtraRows(
            IF NormKey(rows[1][1]) # "Accession"
            THEN DictSet(record, NormKey(rows[1][1]), rows[1][2]) ELSE record,
            Tail(rows))

\* _task after the scrape: drop empty values, then put BioSample first;
\* rec.pop("BioSample") raises KeyError when the key was dropped, and the
\* except clause turns that into None
FinishRecord(scraped) ==
    LET kept == SelectSeq(scraped, LAMBDA kv : kv[2] # "")
    IN  IF "BioSample" \notin DictKeys(kept) THEN NoRecord
        ELSE <<<<"BioSample", DictGet(kept, "BioSample")>>>>
                \o SelectSeq(kept, LAMBDA kv : kv[1] # "BioSample")

\* the browser shows no page of the site (it was quit): a Selenium call on
\* it raises, and the except clause of _task turns that into None
BrowserGone == mpage \notin DOMAIN web

\* tasks holding a pool thread
MetaRunning == {s \in DOMAIN fut : fut[s].st \in {"loaded", "waited", "rows"}}

\* the start of write_biosample_metadata_parallel: the ids, the one Chrome
\* driver, and executor.submit for every id
MetaStart ==
    /\ pc = "meta_start"
    /\ biosamples' = get_biosamples(runinfo)
    /\ mpage' = "blank"
    /\ fut' = [s \in Range(biosamples') |-> [st |-> "queued", rec |-> NoRecord]]
    /\ collected' = {}
    /\ records' = <<>>
    /\ pc' = "meta_wait"
    /\ ran' = ran \cup {"metadata"}
    /\ UNCHANGED <<mainArgs, gi, result, tableVars, web, meta_tsv, dlVars, manifestVars, truncVars>>

\* a pool thread takes task s: driver.get(url) loads the page of s into the
\* shared browser
TaskGet(s) ==
    /\ s \in DOMAIN fut
    /\ fut[s].st = "queued"
    /\ Cardinality(MetaRunning) < threads
    /\ mpage' = s
    /\ fut' = [fut EXCEPT ![s].st = "loaded"]
    /\ UNCHANGED <<mainVars, tableVars, web, biosamples, collected, records, meta_tsv>>
    /\ UNCHANGED <<dlVars, manifestVars, truncVars>>

\* driver.get raises (page-load timeout, a browser error): _task returns None
TaskGetRaises(s) ==
    /\ s \in DOMAIN fut
    /\ fut[s].st = "queued"
    /\ Cardinality(MetaRunning) < threads
    /\ fut' = [fut EXCEPT ![s].st = "done"]
    /\ UNCHANGED <<mainVars, tableVars, web, mpage, biosamples, collected, records, meta_tsv>>
    /\ UNCHANGED <<dlVars, manifestVars, truncVars>>

\* WebDriverWait for #attribute_table on the page the browser shows; on
\* TimeoutException the scrape returns None, else the record is started
TaskWait(s) ==
    /\ s \in DOMAIN fut
    /\ fut[s].st = "loaded"
    /\ fut' = [fut EXCEPT ![s] =
                 IF BrowserGone THEN [st |-> "done", rec |-> NoRecord]
                 ELSE IF web[mpage].found
                 THEN [st |-> "waited", rec |-> <<<<"BioSample", s>>>>]
                 ELSE [st |-> "done", rec |-> NoRecord]]
    /\ UNCHANGED <<mainVars, tableVars, web, mpage, biosamples, collected, records, meta_tsv>>
    /\ UNCHANGED <<dlVars, manifestVars, truncVars>>

\* find_elements on #attribute_table and the loop over its rows, on the page
\* the browser shows
TaskRows(s) ==
    /\ s \in DOMAIN fut
    /\ fut[s].st = "waited"
    /\ fut' = [fut EXCEPT ![s] =
                 IF BrowserGone THEN [st |-> "done", rec |-> NoRecord]
                 ELSE [st |-> "rows", rec |-> ReadAttributeRows(fut[s].rec, web[mpage].attrs)]]
    /\ UNCHANGED <<mainVars, tableVars, web, mpage, biosamples, collected, records, meta_tsv>>
    /\ UNCHANGED <<dlVars, manifestVars, truncVars>>

\* find_elements on the other tables and the loop over their rows; the
\* scrape returns and _task finishes the record
TaskExtra(s) ==
    /\ s \in DOMAIN fut
    /\ fut[s].st = "rows"
    /\ fut' = [fut EXCEPT ![s] =
                 IF BrowserGone THEN [st |-> "done", rec |-> NoRecord]
                 ELSE [st |-> "done",
                       rec |-> FinishRecord(ReadExtraRows(fut[s].rec, web[mpage].extra))]]
    /\ UNCHANGED <<mainVars, tableVars, web, mpage, biosamples, collected, records, meta_tsv>>
    /\ UNCHANGED <<dlVars, manifestVars, truncVars>>

\* as_completed yields a finished future: `if res: records.append(res)`
MetaCollect(s) ==
    /\ pc = "meta_wait"
    /\ s \in DOMAIN fut
    /\ fut[s].st = "done"
    /\ s \notin collected
    /\ collected' = collected \cup {s}
    /\ records' = IF fut[s].rec # NoRecord THEN Append(records, fut[s].rec) ELSE records
    /\ UNCHANGED <<mainVars, tableVars, web, mpage, biosamples, fut, meta_tsv>>
    /\ UNCHANGED <<dlVars, manifestVars, truncVars>>

\* a main thread that leaves the executor without waiting
NoBarrier == TRUE

\* as_completed is exhausted and the with block has shut the executor down
\* (shutdown(wait=True)): every future is done and was yielded
MetaBarrier == \A s \in DOMAIN fut : fut[s].st = "done" /\ s \in collected

\* a header taken from the first record alone
AllKeysOfFirst(recs) ==
    <<"BioSample">> \o Sorted(DictKeys(recs[1]) \ {"BioSample"})

\* all_keys: BioSample, then the other keys sorted
AllKeys(recs) ==
    <<"BioSample">> \o Sorted(UNION {DictKeys(recs[i]) : i \in DOMAIN recs} \ {"BioSample"})

\* the DataFrame written to the TSV: one row per record, "" for a key the
\* record lacks, the Attributes column dropped
MetadataTable(recs) ==
    LET cols == SelectSeq(AllKeys(recs), LAMBDA k : k # "Attributes")
    IN  [header |-> cols,
         rows |-> [i \in DOMAIN recs |-> [j \in DOMAIN cols |-> DictGet(recs[i], cols[j])]]]

\* driver.quit(), then the TSV unless no record was retrieved
MetaExit ==
    /\ pc = "meta_wait"
    /\ MetaBarrier
    /\ mpage' = "quit"
    /\ meta_tsv' = IF records = <<>> THEN meta_tsv ELSE MetadataTable(records)
    /\ pc' = "dry_run"
    /\ UNCHANGED <<mainFixed, gi, result, tableVars, web, biosamples, fut, collected, records>>
    /\ UNCHANGED <<dlVars, manifestVars, truncVars>>

(***************************************************************************)
(* download_from_runinfo and wget_download.                                *)
(***************************************************************************)
\* u.startswith("ftp://") or u.startswith("http://")
IsValidUrl(u) == u.scheme \in {"ftp://", "http://"}

\* the URLs of one row that pass the filter
RowUrls(row) == SelectSeq(row.Download_path, IsValidUrl)

\* whether the loop body skips the row (`continue`)
SkipsRow(row) == row.BioSample = "" \/ row.Download_path = <<>> \/ RowUrls(row) = <<>>

\* the tasks one row appends: (url, species_dir / BioSample / basename(url))
RowTasks(row, species_dir) ==
    IF SkipsRow(row) THEN <<>>
    ELSE [j \in DOMAIN RowUrls(row) |->
            [url |-> RowUrls(row)[j],
             outpath |-> <<species_dir, row.BioSample, RowUrls(row)[j].base>>]]

\* the task list built by the loop over df.iterrows()
DeriveTasks(table, species_dir) ==
    Concat([i \in DOMAIN table |-> RowTasks(table[i], species_dir)])

\* os.path.exists(outpath)
Exists(path) == fs[path] # "absent"

\* an existence test that never skips
ExistsNever(path) == FALSE

\* the test wget_download makes before it does anything
SkipsDownload(path) == Exists(path)

\* tasks holding a pool thread
DlRunning == {i \in DOMAIN dl : dl[i] \in {"checked", "running"}}

\* the results wget can leave in the output file; it exits 0 for "full" only
WgetOutcomes == {"full", "partial", "empty"}

\* the start of download_from_runinfo: the table is read, the tasks are
\* derived, every BioSample directory is made, the pool is started
DownloadStart ==
    /\ pc = "download_start"
    /\ tasks' = DeriveTasks(runinfo, SpeciesDir)
    /\ dirs' = dirs \cup {<<SpeciesDir, runinfo[i].BioSample>> :
                            i \in {k \in DOMAIN runinfo : ~SkipsRow(runinfo[k])}}
    /\ dl' = [i \in DOMAIN tasks' |-> "queued"]
    /\ exit_status' = [i \in DOMAIN tasks' |-> None]
    /\ dl_results' = <<>>
    /\ wget_calls' = 0
    /\ fs_at_start' = fs
    /\ pc' = IF tasks' = <<>> THEN "manifest" ELSE "download_wait"
    /\ ran' = ran \cup {"download"}
    /\ UNCHANGED <<mainArgs, gi, result, tableVars, metaVars, fs, run, manifestVars, truncVars>>

\* a pool thread takes task i: wget_download returns at once when the
\* destination exists
DlCheck(i) ==
    /\ i \in DOMAIN dl
    /\ dl[i] = "queued"
    /\ Cardinality(DlRunning) < threads
    /\ dl' = [dl EXCEPT ![i] = IF SkipsDownload(tasks[i].outpath) THEN "done" ELSE "checked"]
    /\ UNCHANGED <<mainVars, tableVars, metaVars, manifestVars, truncVars>>
    /\ UNCHANGED <<tasks, dl_results, exit_status, fs, dirs, wget_calls, run, fs_at_start>>

\* os.makedirs, then subprocess.call starts wget -c -O outpath, which opens
\* the output file
DlExec(i) ==
    /\ i \in DOMAIN dl
    /\ dl[i] = "checked"
    /\ dl' = [dl EXCEPT ![i] = "running"]
    /\ dirs' = dirs \cup {<<tasks[i].outpath[1], tasks[i].outpath[2]>>}
    /\ fs' = [fs EXCEPT ![tasks[i].outpath] = IF @ = "absent" THEN "empty" ELSE @]
    /\ wget_calls' = wget_calls + 1
    /\ UNCHANGED <<mainVars, tableVars, metaVars, manifestVars, truncVars>>
    /\ UNCHANGED <<tasks, dl_results, exit_status, run, fs_at_start>>

\* wget ends, after its retries, leaving the file complete or not;
\* subprocess.call returns its exit status, which wget_download drops
DlFinish(i, outcome) ==
    /\ i \in DOMAIN dl
    /\ dl[i] = "running"
    /\ dl' = [dl EXCEPT ![i] = "done"]
    /\ fs' = [fs EXCEPT ![tasks[i].outpath] = outcome]
    /\ exit_status' = [exit_status EXCEPT ![i] = IF outcome = "full" THEN "0" ELSE "1"]
    /\ UNCHANGED <<mainVars, tableVars, metaVars, manifestVars, truncVars>>
    /\ UNCHANGED <<tasks, dl_results, dirs, wget_calls, run, fs_at_start>>

\* pool.starmap returns once every call has returned
DownloadBarrier == \A i \in DOMAIN dl : dl[i] = "done"

\* starmap returns the list of the values wget_download returned (None for
\* every task); pool.close() and pool.join() follow
DownloadJoin ==
    /\ pc = "download_wait"
    /\ DownloadBarrier
    /\ dl_results' = [i \in DOMAIN tasks |-> None]
    /\ pc' = "manifest"
    /\ UNCHANGED <<mainFixed, gi, result, tableVars, metaVars, manifestVars, truncVars>>
    /\ UNCHANGED <<tasks, dl, exit_status, fs, dirs, wget_calls, run, fs_at_start>>

\* the downloader is run once more over the same table and destination
RunAgain ==
    /\ pc = "manifest"
    /\ run < 2
    /\ run' = run + 1
    /\ pc' = "download_start"
    /\ UNCHANGED <<mainFixed, gi, result, tableVars, metaVars, manifestVars, truncVars>>
    /\ UNCHANGED <<tasks, dl, dl_results, exit_status, fs, dirs, wget_calls, fs_at_start>>

(***************************************************************************)
(* write_read_manifest and the standalone read_manifest_writer.            *)
(***************************************************************************)
\* the names in a BioSample directory
NamesIn(d) == {f \in FileNames : fs[<<d[1], d[2], f>>] # "absent"}

\* the names biosample.glob("*.f*q.gz") returns
GlobOf(d) == {f \in NamesIn(d) : GlobFastq(f)}

\* sorted(biosample_dirs) for directories of one species directory
SortedDirs(D) == LET ids == Sorted({d[2] : d \in D})
                 IN  [i \in DOMAIN ids |-> CHOOSE d \in D : d[2] = ids[i]]

\* one listing order per directory
ListingChoices(D) ==
    {ls \in [D -> UNION {ListingsOf(GlobOf(d)) : d \in D}] :
        \A d \in D : ls[d] \in ListingsOf(GlobOf(d))}

\* the manifest write_read_manifest leaves for the directories D listed as ls;
\* None when it finds no directory and returns before opening the file
ManifestOf(D, ls) ==
    IF D = {} THEN NoManifest
    ELSE [i \in DOMAIN SortedDirs(D) |-> ManifestRow(SortedDirs(D)[i], ls[SortedDirs(D)[i]])]

\* the BioSample directories under species_dir (depth=1)
DirsUnder(species_dir) == {d \in dirs : d[1] = species_dir}

\* write_read_manifest(species_dir, manifest_path, depth=1), then
\* `return genome, n_rows, True`
WriteManifest ==
    /\ pc = "manifest"
    /\ \E ls \in ListingChoices(DirsUnder(SpeciesDir)) :
          manifest' = ManifestOf(DirsUnder(SpeciesDir), ls)
    /\ Return(<<Genome, n_rows, TRUE>>)
    /\ ran' = ran \cup {"manifest"}
    /\ UNCHANGED <<mainArgs, tableVars, metaVars, dlVars, manifest_standalone, truncVars>>

\* R1_RE and R2_RE as read_manifest_writer.py compiles them
ToolR1_RE(name) == MateSearch(name, "1")

ToolR2_RE(name) == MateSearch(name, "2")

RECURSIVE ToolBucketFiles(_, _)
\* the bucketing loop of the standalone tool
ToolBucketFiles(files, acc) ==
    IF files = <<>> THEN acc
    ELSE LET f == Head(files)
         IN  ToolBucketFiles(Tail(files),
                IF ToolR1_RE(f) THEN [acc EXCEPT !.short1 = Append(@, f)]
                ELSE IF ToolR2_RE(f) THEN [acc EXCEPT !.short2 = Append(@, f)]
                ELSE [acc EXCEPT !.long = Append(@, f)])

\* has_short, has_long and the status chain of the standalone tool
ToolStatusOf(b) ==
    LET has_short == b.short1 # <<>> /\ b.short2 # <<>>
        has_long == b.long # <<>>
    IN  IF has_short /\ has_long THEN "hybrid"
        ELSE IF has_short THEN "short_only"
        ELSE IF has_long THEN "long_only"
        ELSE "unknown"

\* the manifest line the standalone tool writes for one directory
ToolManifestRow(biosample, files) ==
    LET b == ToolBucketFiles(files, EmptyBuckets)
    IN  [biosample_path |-> biosample,
         fastq_count |-> Len(files),
         status |-> ToolStatusOf(b),
         short_read_1 |-> FirstSorted(b.short1),
         short_read_2 |-> FirstSorted(b.short2),
         long_read_primary |-> FirstSorted(b.long),
         long_read_extra |-> IF Len(b.long) > 1 THEN Tail(SortedPaths(Range(b.long))) ELSE <<>>]

\* the standalone tool run on one species directory with --depth 1; with no
\* directory it exits before it opens the output file
StandaloneTool ==
    /\ \E sd \in SpeciesDirs :
         /\ DirsUnder(sd) # {}
         /\ \E ls \in ListingChoices(DirsUnder(sd)) :
              manifest_standalone' =
                 [i \in DOMAIN SortedDirs(DirsUnder(sd)) |->
                    ToolManifestRow(SortedDirs(DirsUnder(sd))[i], ls[SortedDirs(DirsUnder(sd))[i]])]
    /\ UNCHANGED <<mainVars, tableVars, metaVars, dlVars, manifest, truncVars>>

(***************************************************************************)
(* truncate_runinfo run on a file, character by character.                 *)
(***************************************************************************)
\* one call of truncate_runinfo(path, ncols) on the file
TruncatePass ==
    /\ passes < 2
    /\ csv' = truncate_runinfo(csv, ncols_arg)
    /\ passes' = passes + 1
    /\ UNCHANGED <<mainVars, tableVars, metaVars, dlVars, manifestVars, csv0, ncols_arg>>

(***************************************************************************)
(* Initial states and specifications.                                      *)
(***************************************************************************)
NoFiles == [p \in Paths |-> "absent"]

InitTable ==
    /\ runinfo = <<>>
    /\ stage = "none"
    /\ n_rows = 0

InitMeta ==
    /\ mpage = "none"
    /\ biosamples = <<>>
    /\ fut = <<>>
    /\ collected = {}
    /\ records = <<>>
    /\ meta_tsv = NoTable

InitDl ==
    /\ tasks = <<>>
    /\ dl = <<>>
    /\ dl_results = <<>>
    /\ exit_status = <<>>
    /\ wget_calls = 0
    /\ run = 1
    /\ fs_at_start = NoFiles

InitManifest ==
    /\ manifest = NoManifest
    /\ manifest_standalone = NoManifest

InitTrunc ==
    /\ csv0 = <<>>
    /\ csv = <<>>
    /\ ncols_arg = NCols
    /\ passes = 0

\* the phases process_genome has entered when control is at `at`
RanBefore(at) ==
    CASE at = "download_start" -> {"metadata"}
      [] at = "manifest" -> {"metadata", "download"}
      [] OTHER -> {}

\* main has parsed its arguments, started Chrome and read the input list
InitMain ==
    /\ gi = 1
    /\ pc = "for"
    /\ exc = FALSE
    /\ result = NoResult
    /\ called = {}
    /\ driver = "open"
    /\ quits = 0
    /\ ran = RanBefore(pc)

\* process_genome, called for the only genome of the list, is at `at`
InitInside(at) ==
    /\ genomes = <<GenomeEc>>
    /\ gi = 1
    /\ pc = at
    /\ exc = FALSE
    /\ result = NoResult
    /\ called = {1}
    /\ driver = "open"
    /\ quits = 0
    /\ ran = RanBefore(pc)

\* The whole program, on every input list and flag setting within the bounds.
Init ==
    /\ genomes \in SeqsBetween(GenomeNames, 0, MaxGenomes)
    /\ dry_run \in BOOLEAN
    /\ threads \in 1..MaxThreads
    /\ InitMain
    /\ InitTable
    /\ web = DefaultWeb
    /\ InitMeta
    /\ InitDl
    /\ fs = NoFiles
    /\ dirs = {}
    /\ InitManifest
    /\ InitTrunc

Next ==
    \/ ProcessGenome
    \/ DiscoverNothing
    \/ \E t \in DiscoveredTables : DiscoverTable(t)
    \/ Raise
    \/ TruncateTable
    \/ FilterTable
    \/ CountRows
    \/ MetaStart
    \/ \E s \in SampleIds : TaskGet(s)
    \/ \E s \in SampleIds : TaskGetRaises(s)
    \/ \E s \in SampleIds : TaskWait(s)
    \/ \E s \in SampleIds : TaskRows(s)
    \/ \E s \in SampleIds : TaskExtra(s)
    \/ \E s \in SampleIds : MetaCollect(s)
    \/ MetaExit
    \/ DryRunTest
    \/ DownloadStart
    \/ \E i \in DOMAIN dl : DlCheck(i)
    \/ \E i \in DOMAIN dl : DlExec(i)
    \/ \E i \in DOMAIN dl : \E o \in WgetOutcomes : DlFinish(i, o)
    \/ DownloadJoin
    \/ WriteManifest
    \/ ForEnd
    \/ Finally

Spec == Init /\ [][Next]_vars

\* The metadata phase alone, on every filtered table and every site content
\* within the bounds.
MetaRows == {Row("CRR1", b, <<UrlA1>>, GenomeEc, NCols) : b \in SampleIds \cup {""}}

InitMetaPhase ==
    /\ InitInside("meta_start")
    /\ dry_run = FALSE
    /\ threads \in 1..MaxThreads
    /\ runinfo \in SeqsBetween(MetaRows, 1, MaxRows)
    /\ stage = "filtered"
    /\ n_rows = Len(runinfo)
    /\ web \in [SampleIds -> Pages]
    /\ InitMeta
    /\ InitDl
    /\ fs = NoFiles
    /\ dirs = {}
    /\ InitManifest
    /\ InitTrunc

NextMeta ==
    \/ MetaStart
    \/ \E s \in SampleIds : TaskGet(s)
    \/ \E s \in SampleIds : TaskGetRaises(s)
    \/ \E s \in SampleIds : TaskWait(s)
    \/ \E s \in SampleIds : TaskRows(s)
    \/ \E s \in SampleIds : TaskExtra(s)
    \/ \E s \in SampleIds : MetaCollect(s)
    \/ MetaExit

SpecMeta == InitMetaPhase /\ [][NextMeta]_vars

\* The download phase alone, run and run again, on every filtered table
\* within the bounds, single-threaded and with MaxThreads threads, with the
\* destination of UrlA1 absent, empty, part-written or complete beforehand.
DlRows ==
    {Row("CRR1", "SAMC1", <<UrlA1, UrlA2>>, GenomeEc, NCols),
     Row("CRR2", "SAMC1", <<UrlB>>, GenomeEc, NCols),
     Row("CRR3", "SAMC1", <<UrlA1Mirror, UrlHttps>>, GenomeEc, NCols),
     Row("CRR4", "SAMC1", <<UrlHttps>>, GenomeEc, NCols),
     Row("CRR5", "SAMC1", <<>>, GenomeEc, NCols),
     Row("CRR6", "", <<UrlB>>, GenomeEc, NCols)}

DlPaths == {genome_fs(GenomeEc)} \X {"SAMC1"} \X {FileA1}

InitDownloadPhase ==
    /\ InitInside("download_start")
    /\ dry_run = FALSE
    /\ threads \in {1, MaxThreads}
    /\ runinfo \in SeqsBetween(DlRows, 1, MaxRows)
    /\ stage = "filtered"
    /\ n_rows = Len(runinfo)
    /\ web = DefaultWeb
    /\ InitMeta
    /\ InitDl
    /\ \E p \in DlPaths, st \in FileStates : fs = [NoFiles EXCEPT ![p] = st]
    /\ dirs = {<<p[1], p[2]>> : p \in {q \in Paths : fs[q] # "absent"}}
    /\ InitManifest
    /\ InitTrunc

NextDownload ==
    \/ DownloadStart
    \/ \E i \in DOMAIN dl : DlCheck(i)
    \/ \E i \in DOMAIN dl : DlExec(i)
    \/ \E i \in DOMAIN dl : \E o \in WgetOutcomes : DlFinish(i, o)
    \/ DownloadJoin
    \/ RunAgain

SpecDownload == InitDownloadPhase /\ [][NextDownload]_vars

\* The two manifest writers on every content, within the bounds, of the
\* BioSample directories of one species directory.
ManifestDirs == {genome_fs(GenomeEc)} \X SampleIds

\* the sets of at most MaxFiles files, each in one of the directories
DirContents == {P \in SUBSET (ManifestDirs \X FileNames) : Cardinality(P) <= MaxFiles}

InitManifestPhase ==
    /\ InitInside("manifest")
    /\ dry_run = FALSE
    /\ threads = 1
    /\ runinfo = TableTwoSamples
    /\ stage = "filtered"
    /\ n_rows = Len(runinfo)
    /\ web = DefaultWeb
    /\ InitMeta
    /\ InitDl
    /\ \E P \in DirContents :
          /\ fs = [p \in Paths |-> IF <<<<p[1], p[2]>>, p[3]>> \in P THEN "full" ELSE "absent"]
          /\ dirs \in {D \in SUBSET ManifestDirs : \A x \in P : x[1] \in D}
    /\ InitManifest
    /\ InitTrunc

NextManifest ==
    \/ WriteManifest
    \/ StandaloneTool

SpecManifest == InitManifestPhase /\ [][NextManifest]_vars

\* truncate_runinfo alone, on every file within the bounds.
CsvChars == {"a", " ", ","}

CsvLines == SeqsBetween(CsvChars, 0, MaxLineLen)

InitTruncPhase ==
    /\ genomes = <<>>
    /\ dry_run = FALSE
    /\ threads = 1
    /\ InitMain
    /\ InitTable
    /\ web = DefaultWeb
    /\ InitMeta
    /\ InitDl
    /\ fs = NoFiles
    /\ dirs = {}
    /\ InitManifest
    /\ csv0 \in SeqsBetween(CsvLines, 1, MaxLines)
    /\ csv = csv0
    /\ ncols_arg \in 1..MaxCols
    /\ passes = 0

NextTrunc == TruncatePass

SpecTrunc == InitTruncPhase /\ [][NextTrunc]_vars

(***************************************************************************)
(* The claims.                                                             *)
(***************************************************************************)

\* C1 (as claimed): an exception raised while one genome is processed never
\* halts the batch: when main has ended, process_genome has been called for
\* every genome of the input list, whichever call raised.
C1_ExceptionNeverHaltsBatch ==
    pc = "exit" => \A i \in 1..Len(genomes) : i \in called

\* C2: within one genome the phases are separated by barriers.  A metadata
\* task runs only once the filter pass has written the table and only while
\* main waits in the metadata phase; a download task runs only while main
\* waits in the download phase, and no download task has left the queue while
\* a metadata task is unfinished; main reaches the manifest only with every
\* metadata task and every download task finished.
C2_PhaseBarriers ==
    /\ MetaRunning # {} => stage = "filtered" /\ pc = "meta_wait"
    /\ pc \in {"meta_start", "meta_wait"} => \A i \in DOMAIN dl : dl[i] \in {"done"}
    /\ DlRunning # {} => pc = "download_wait"
    /\ pc \in {"dry_run", "download_start", "download_wait", "manifest"} =>
          \A s \in DOMAIN fut : fut[s].st = "done"
    /\ pc = "manifest" => \A i \in DOMAIN dl : dl[i] = "done"

\* C2 witness: two download tasks run at once, after a metadata phase of two
\* tasks has ended.
C2_Witness ==
    /\ pc = "download_wait"
    /\ Cardinality(DlRunning) >= 2
    /\ Cardinality(DOMAIN fut) >= 2
    /\ \A s \in DOMAIN fut : fut[s].st = "done"
    /\ stage = "filtered"

\* every destination of the run's tasks was present when the run began
AllPresentAtStart == \A i \in DOMAIN tasks : fs_at_start[tasks[i].outpath] # "absent"

\* C3: in a second run of the downloader over the same table, begun with
\* every task's destination present, wget is never invoked.
C3_SecondRunNoTransport ==
    (run = 2 /\ pc \in {"download_wait", "manifest"} /\ AllPresentAtStart) => wget_calls = 0

\* C3 witness: a second run has ended; it had tasks, the first run fetched
\* files for them, and every destination was present when it began.
C3_Witness ==
    /\ run = 2
    /\ pc = "manifest"
    /\ Len(tasks) >= 2
    /\ AllPresentAtStart
    /\ \E i \in DOMAIN tasks : fs[tasks[i].outpath] = "full" /\ fs_at_start[tasks[i].outpath] = "full"
    /\ wget_calls = 0

\* whether wget was invoked, in this run, for the destination of task i
Transported(i) ==
    \E j \in DOMAIN tasks : tasks[j].outpath = tasks[i].outpath /\ exit_status[j] # None

\* C4 (as claimed): a task is skipped only when its destination exists as a
\* non-empty file: when a run has ended, wget was invoked for every
\* destination that was absent or an empty file when the run began.
C4_EmptyDestinationIsFetched ==
    pc = "manifest" =>
        \A i \in DOMAIN tasks :
            fs_at_start[tasks[i].outpath] \in {"absent", "empty"} => Transported(i)

\* C5 (as claimed): when the download phase has ended every derived task was
\* executed and has one recorded outcome, succeeded or failed, so that
\* attempted = number of tasks and succeeded + failed = attempted.
C5_EveryTaskHasRecordedOutcome ==
    (pc = "manifest" /\ tasks # <<>>) =>
        /\ \A i \in DOMAIN tasks : dl[i] = "done"
        /\ Len(dl_results) = Len(tasks)
        /\ Cardinality({i \in DOMAIN tasks : dl_results[i] = "succeeded"})
             + Cardinality({i \in DOMAIN tasks : dl_results[i] = "failed"}) = Len(tasks)

\* the record a fetch of s yields when no other worker touches the browser
OwnRecord(s) ==
    IF web[s].found
    THEN FinishRecord(ReadExtraRows(ReadAttributeRows(<<<<"BioSample", s>>>>, web[s].attrs),
                                    web[s].extra))
    ELSE NoRecord

\* C6 (as claimed): with two threads or more and two ids or more, the
\* metadata browser is never in use by two workers at once, and the record
\* stored for id s is the one the page of s yields.
C6_SessionExclusivelyOwned ==
    (threads >= 2 /\ Len(biosamples) >= 2) =>
        /\ Cardinality(MetaRunning) <= 1
        /\ \A s \in DOMAIN fut :
              (fut[s].st = "done" /\ fut[s].rec # NoRecord) => fut[s].rec = OwnRecord(s)

\* no page of the site carries a row whose key is BioSample
NoBioSampleRows ==
    \A s \in DOMAIN web :
        /\ \A i \in DOMAIN web[s].attrs : NormKey(web[s].attrs[i][1]) # "BioSample"
        /\ \A i \in DOMAIN web[s].extra : NormKey(web[s].extra[i][1]) # "BioSample"

\* C7 (as claimed): the rows of the metadata table are in ascending order of
\* sample id, whatever the order in which the fetches completed.
C7_RowsInSampleIdOrder ==
    (meta_tsv # NoTable /\ NoBioSampleRows) =>
        IsAscending([i \in DOMAIN meta_tsv.rows |-> meta_tsv.rows[i][1]])

\* the read-1, read-2 and long files of directory d, as the claim buckets them
Short1Of(d) == {f \in GlobOf(d) : R1_RE(f)}

Short2Of(d) == {f \in GlobOf(d) : ~R1_RE(f) /\ R2_RE(f)}

LongOf(d) == GlobOf(d) \ (Short1Of(d) \cup Short2Of(d))

\* the status the claim gives directory d
ClaimedStatus(d) ==
    IF Short1Of(d) # {} /\ Short2Of(d) # {} /\ LongOf(d) # {} THEN "hybrid"
    ELSE IF Short1Of(d) # {} /\ Short2Of(d) # {} /\ LongOf(d) = {} THEN "short_only"
    ELSE IF LongOf(d) # {} /\ (Short1Of(d) = {} \/ Short2Of(d) = {}) THEN "long_only"
    ELSE "unknown"

\* what C8 says of one written manifest
StatusAsClaimed(m) ==
    \A i \in DOMAIN m :
        /\ m[i].status = ClaimedStatus(m[i].biosample_path)
        /\ (Short1Of(m[i].biosample_path) = {} \/ Short2Of(m[i].biosample_path) = {})
              => m[i].status \notin {"short_only", "hybrid"}

\* C8: every manifest row has the status the claim's case analysis gives its
\* directory; a directory with files of one mate only is never short_only or
\* hybrid; the pipeline classifier writes the same manifest whatever order
\* the directory listing comes in, and the standalone tool writes the same
\* manifest as the pipeline classifier.
C8_ManifestStatus ==
    /\ StatusAsClaimed(manifest)
    /\ StatusAsClaimed(manifest_standalone)
    /\ manifest # NoManifest =>
          manifest = ManifestOf(DirsUnder(genome_fs(GenomeEc)),
                                CHOOSE ls \in ListingChoices(DirsUnder(genome_fs(GenomeEc))) : TRUE)
    /\ (manifest # NoManifest /\ manifest_standalone # NoManifest) =>
          manifest = manifest_standalone

\* C8 witness: both writers have run on a directory that holds read-1 files
\* and long reads but no read-2 file, and on another directory.
C8_Witness ==
    /\ manifest # NoManifest
    /\ manifest_standalone # NoManifest
    /\ Len(manifest) >= 2
    /\ \E i \in DOMAIN manifest :
          /\ Short1Of(manifest[i].biosample_path) # {}
          /\ Short2Of(manifest[i].biosample_path) = {}
          /\ manifest[i].fastq_count >= 2
          /\ manifest[i].status = "long_only"

\* the rows and the "" cells of the written table, as C9 has them
RowsRenderRecords ==
    /\ Len(meta_tsv.rows) = Len(records)
    /\ \A i \in DOMAIN records : \A j \in DOMAIN meta_tsv.header :
          meta_tsv.rows[i][j] =
             IF meta_tsv.header[j] \in DictKeys(records[i])
             THEN DictGet(records[i], meta_tsv.header[j]) ELSE ""

\* C9 (as claimed): every key of any collected record is a column of the
\* table, every record yields one row, and a key a record lacks is "" there.
C9_EveryKeyIsAColumn ==
    meta_tsv # NoTable =>
        /\ \A i \in DOMAIN records : DictKeys(records[i]) \subseteq Range(meta_tsv.header)
        /\ RowsRenderRecords

\* C9 (amended): every key of any collected record other than Attributes is a
\* column of the table, every record yields one row, and a key a record
\* lacks is "" there.
C9_EveryKeyButAttributesIsAColumn ==
    meta_tsv # NoTable =>
        /\ \A i \in DOMAIN records :
              DictKeys(records[i]) \ {"Attributes"} \subseteq Range(meta_tsv.header)
        /\ RowsRenderRecords

\* C9 witness: a table of two records was written; one record has a key the
\* other lacks, and the other's row has "" in that column.
C9_Witness ==
    /\ meta_tsv # NoTable
    /\ Len(records) = 2
    /\ \E j \in DOMAIN meta_tsv.header :
          /\ meta_tsv.header[j] \in DictKeys(records[1])
          /\ meta_tsv.header[j] \notin DictKeys(records[2])
          /\ meta_tsv.rows[2][j] = ""
          /\ meta_tsv.rows[1][j] # ""

\* C10 (as claimed): on a file whose lines all have at least ncols fields,
\* two passes of truncate_runinfo leave what one pass leaves.
C10_TruncationIdempotent ==
    (passes = 2 /\ \A i \in DOMAIN csv0 : FieldCount(csv0[i]) >= ncols_arg) =>
        csv = truncate_runinfo(csv0, ncols_arg)

\* process_genome has just returned to main's loop after filtering its table
ReturnedAfterFilter ==
    /\ pc = "for"
    /\ result # NoResult
    /\ stage = "filtered"

\* C11: which phases run for a genome is decided by the number of rows the
\* filter leaves and by the dry-run flag alone.  No phase is ever entered
\* unless at least one row survived; under dry-run only the metadata phase is
\* entered and wget is never called; and when process_genome returns after
\* the filter, then with no row left nothing ran and the value is
\* (genome, 0, False), with a row left and dry-run set exactly the metadata
\* phase ran, and with a row left and dry-run unset the metadata phase, the
\* download and the manifest all ran, the value being (genome, n_rows, True).
C11_PhasesByRowsAndDryRun ==
    /\ ran # {} => (stage = "filtered" /\ Len(runinfo) >= 1 /\ n_rows = Len(runinfo))
    /\ dry_run => (ran \subseteq {"metadata"} /\ wget_calls = 0 /\ manifest = NoManifest)
    /\ ReturnedAfterFilter =>
          IF Len(runinfo) = 0
          THEN ran = {} /\ result = <<genomes[gi - 1], 0, FALSE>>
          ELSE /\ result = <<genomes[gi - 1], Len(runinfo), TRUE>>
               /\ ran = IF dry_run THEN {"metadata"}
                                   ELSE {"metadata", "download", "manifest"}

\* a dry run returned for a genome with a surviving row, after its metadata
\* phase
C11_Witness ==
    /\ ReturnedAfterFilter
    /\ dry_run
    /\ Len(runinfo) >= 1
    /\ ran = {"metadata"}

\* C12: no two download tasks of one run have the same destination path, so
\* that two wget transfers are never writing the same file at the same time,
\* also when rows of one BioSample list the same URL or URLs with the same
\* basename.
C12_DistinctDestinations ==
    \A i, j \in DOMAIN tasks :
        (i # j /\ dl[i] = "running" /\ dl[j] = "running")
            => tasks[i].outpath # tasks[j].outpath

\* the discovery browser has been released once and main has ended
ReleasedOnce == pc = "exit" /\ driver = "quit" /\ quits = 1

\* C13: the discovery browser started before the loop is quit exactly once:
\* it stays open, never quit, as long as main is in the loop or a genome is
\* being processed; once main has left the try statement it has been quit
\* once, whether the loop ran out or a call of process_genome raised.
C13_BrowserReleasedOnce ==
    /\ quits <= 1
    /\ pc # "exit" => (driver = "open" /\ quits = 0)
    /\ pc = "exit" => ReleasedOnce

\* main has ended by an exception raised for a genome that was not the last,
\* with the browser quit
C13_Witness ==
    /\ ReleasedOnce
    /\ exc
    /\ gi < Len(genomes)

\* C14 (as claimed): a record that a fetch returns has BioSample as its first
\* key with the id the fetch was issued for as its value, whatever rows the
\* page carries, and so the BioSample cell of every row of the written table
\* is one of the ids fetched.
C14_BioSampleNeverOverwritten ==
    /\ \A s \in DOMAIN fut :
          (fut[s].st = "done" /\ fut[s].rec # NoRecord) => fut[s].rec[1] = <<"BioSample", s>>
    /\ meta_tsv # NoTable =>
          /\ meta_tsv.header[1] = "BioSample"
          /\ \A i \in DOMAIN meta_tsv.rows : meta_tsv.rows[i][1] \in Range(biosamples)

====
